---- MODULE Spec2Model ----
(***************************************************************************)
(* Model of the grid-pathfinding validation harness:                       *)
(*   utils/utils.py   compute_cost, read_task_from_file, make_path         *)
(*   tests/lab_test.py simple_test, simple_test_not_found, massive_test    *)
(*                                                                         *)
(* Three specifications share the variables below:                         *)
(*   SpecCost  one call of compute_cost on arbitrary integer cells         *)
(*   SpecPath  one call of make_path, statement by statement, on an        *)
(*             arbitrary (possibly cyclic) parent-pointer heap             *)
(*   Spec      the three task runners driving an external search function  *)
(*                                                                         *)
(* Numbers that may be fractional (path lengths) are kept in half units:   *)
(* <<v>> stands for the Python number v/2, <<>> for a value int() rejects  *)
(* (nan, inf, None).                                                       *)
(***************************************************************************)
EXTENDS Integers, Sequences, FiniteSets, TLC

VARIABLES
    \* ---- compute_cost call
    cc_pc, i1, j1, i2, j2, cost,
    \* ---- search tree heap and make_path call
    parent, g, goal, mp_pc, current, path, mp_length, mp_ret,
    \* ---- task runners
    runner, pc, num_of_tasks, task, task_count, length, stat, out, exc,
    \* ---- history of the run (not program state)
    origin, calls, reads, result

costVars == <<cc_pc, i1, j1, i2, j2, cost>>
pathVars == <<parent, g, goal, mp_pc, current, path, mp_length, mp_ret>>
runVars  == <<runner, pc, num_of_tasks, task, task_count, length, stat, out, exc,
              origin, calls, reads, result>>
vars == <<costVars, pathVars, runVars>>

\* ------------------------------------------------------------------ bounds
MaxCoord == 1       \* cell coordinates range over -1..MaxCoord
MaxNodes == 3       \* nodes of the heap handed to a lone make_path call
MaxPath == 5        \* cap on the list make_path grows around a cycle
MaxTasks == 2       \* largest num_of_tasks
MaxTreeNodes == 1   \* nodes of the search tree a search call hands back

\* ------------------------------------------------------------- basic values
None == 0                       \* Python None as a node reference
Nothing == <<>>                 \* an absent / unusable value
Some(x) == <<x>>
NaN == <<>>                     \* a length int() cannot convert
Half(v) == <<v>>                \* the number v/2
Whole(n) == <<2 * n>>           \* the integer n as a number

NoExc == [cls |-> "", by |-> ""]
Raised(cls, by) == [cls |-> cls, by |-> by]

abs(x) == IF x < 0 THEN -x ELSE x

Coord == (-1)..MaxCoord

RECURSIVE Reverse(_)
Reverse(s) == IF s = <<>> THEN <<>> ELSE Append(Reverse(Tail(s)), Head(s))

\* ------------------------------------------------------------ compute_cost
\* Chebyshev adjacency instead of Manhattan adjacency: diagonal moves cost 1.
compute_cost_diag(a1, b1, a2, b2) ==
    IF (IF abs(a1 - a2) > abs(b1 - b2) THEN abs(a1 - a2) ELSE abs(b1 - b2)) = 1
    THEN [ret |-> Some(1), exc |-> NoExc]
    ELSE [ret |-> Nothing, exc |-> Raised("ValueError", "compute_cost")]

compute_cost(a1, b1, a2, b2) ==
    IF abs(a1 - a2) + abs(b1 - b2) = 1
    THEN [ret |-> Some(1), exc |-> NoExc]
    ELSE [ret |-> Nothing, exc |-> Raised("ValueError", "compute_cost")]

IdleCost ==
    /\ cc_pc = "idle" /\ i1 = 0 /\ j1 = 0 /\ i2 = 0 /\ j2 = 0
    /\ cost = [ret |-> Nothing, exc |-> NoExc]

InitCostCall ==
    /\ cc_pc = "call"
    /\ i1 \in Coord /\ j1 \in Coord /\ i2 \in Coord /\ j2 \in Coord
    /\ cost = [ret |-> Nothing, exc |-> NoExc]

CallComputeCost ==
    /\ cc_pc = "call"
    /\ cost' = compute_cost(i1, j1, i2, j2)
    /\ cc_pc' = "done"
    /\ UNCHANGED <<i1, j1, i2, j2, pathVars, runVars>>

\* ---------------------------------------------------------------- the heap
\* BaseNode objects: a node is an index, parent[n] its back-reference (None
\* for a root), g[n] its accumulated cost.
Nodes == 1..MaxNodes
PathGVals == {Half(-1), Half(3)}      \* g of a node: -0.5 or 1.5
GVals == PathGVals \cup {NaN}         \* or a g that int() rejects

\* `while current.parent:` -- a node object is truthy, None is not.
HasParent(par, n) == par[n] # None

\* ---------------------------------------------------- make_path, by statement
IdlePath ==
    /\ parent = <<>> /\ g = <<>> /\ goal = None /\ mp_pc = "idle"
    /\ current = None /\ path = <<>> /\ mp_length = Nothing
    /\ mp_ret = [path |-> <<>>, length |-> Nothing]

InitPathCall ==
    /\ parent \in [Nodes -> {None} \cup Nodes]
    /\ g \in [Nodes -> PathGVals]
    /\ goal \in Nodes
    /\ mp_pc = "call"
    /\ current = None /\ path = <<>> /\ mp_length = Nothing
    /\ mp_ret = [path |-> <<>>, length |-> Nothing]

\* length = goal.g; current = goal; path = []
make_path_enter ==
    /\ mp_pc = "call"
    /\ mp_length' = g[goal]
    /\ current' = goal
    /\ path' = <<>>
    /\ mp_pc' = "while"
    /\ UNCHANGED <<parent, g, goal, mp_ret, costVars, runVars>>

\* The loop body also stops when the walk comes back to the goal.
make_path_loop_guarded ==
    /\ mp_pc = "while"
    /\ HasParent(parent, current)
    /\ IF parent[current] = goal
       THEN /\ mp_ret' = [path |-> Reverse(Append(path, current)), length |-> mp_length]
            /\ mp_pc' = "done"
            /\ UNCHANGED <<path, current>>
       ELSE /\ path' = Append(path, current)
            /\ current' = parent[current]
            /\ UNCHANGED <<mp_ret, mp_pc>>
    /\ UNCHANGED <<parent, g, goal, mp_length, costVars, runVars>>

\* while current.parent: path.append(current); current = current.parent
make_path_loop ==
    /\ mp_pc = "while"
    /\ HasParent(parent, current)
    /\ Len(path) < MaxPath
    /\ path' = Append(path, current)
    /\ current' = parent[current]
    /\ UNCHANGED <<parent, g, goal, mp_pc, mp_length, mp_ret, costVars, runVars>>

\* The root is left out and the list is returned goal-first.
make_path_return_unreversed ==
    /\ mp_pc = "while"
    /\ ~HasParent(parent, current)
    /\ path' = path
    /\ mp_ret' = [path |-> IF path = <<>> THEN <<current>> ELSE path,
                  length |-> mp_length]
    /\ mp_pc' = "done"
    /\ UNCHANGED <<parent, g, goal, current, mp_length, costVars, runVars>>

\* path.append(current); return path[::-1], length
make_path_return ==
    /\ mp_pc = "while"
    /\ ~HasParent(parent, current)
    /\ path' = Append(path, current)
    /\ mp_ret' = [path |-> Reverse(path'), length |-> mp_length]
    /\ mp_pc' = "done"
    /\ UNCHANGED <<parent, g, goal, current, mp_length, costVars, runVars>>

\* ------------------------------------------------- make_path, as one call
\* The walk of the while loop from `cur`, having collected `p`.  A chain over
\* the nodes of `par` that needs more loop passes than there are nodes visits
\* some node twice, so it never ends: that outcome is Nothing.
RECURSIVE walk(_, _, _, _)
walk(par, cur, p, fuel) ==
    IF HasParent(par, cur)
    THEN IF fuel = 0 THEN Nothing
         ELSE walk(par, par[cur], Append(p, cur), fuel - 1)
    ELSE Append(p, cur)

\* make_path(goal): goal.g on None raises AttributeError.
make_path(par, gg, goal_node) ==
    IF goal_node = None
    THEN [path |-> <<>>, length |-> Nothing, hang |-> FALSE,
          exc |-> Raised("AttributeError", "make_path")]
    ELSE LET p == walk(par, goal_node, <<>>, Cardinality(DOMAIN par))
         IN  IF p = Nothing
             THEN [path |-> <<>>, length |-> Nothing, hang |-> TRUE, exc |-> NoExc]
             ELSE [path |-> Reverse(p), length |-> gg[goal_node], hang |-> FALSE,
                   exc |-> NoExc]

\* ------------------------------------------------------------------- int()
\* Rounds towards minus infinity instead of towards zero.
int_floor(x) ==
    IF x = NaN
    THEN [val |-> 0, exc |-> Raised("ValueError", "int")]
    ELSE [val |-> IF x[1] >= 0 THEN x[1] \div 2 ELSE -((1 - x[1]) \div 2),
          exc |-> NoExc]

\* int(x) of a number in half units: truncation towards zero; nan, inf and
\* None are rejected.
int(x) ==
    IF x = NaN
    THEN [val |-> 0, exc |-> Raised("ValueError", "int")]
    ELSE [val |-> IF x[1] >= 0 THEN x[1] \div 2 ELSE -((-x[1]) \div 2),
          exc |-> NoExc]

\* ------------------------------------------------------ the search function
\* The external search function, seen from the runner: it returns a tuple
\* (found, end_node, number_of_steps, search_tree_size, ...) over a tree it
\* built, returns a tuple too short to unpack, raises, or never returns.
TreeNodes == 1..MaxTreeNodes
StatPairs == {<<1, 2>>, <<2, 3>>}    \* (number_of_steps, search_tree_size)
SearchG(len) == GVals \cup {len}

SearchReturns(len) ==
    { [kind |-> "return", found |-> f, end_node |-> e, parent |-> par, g |-> gg,
       number_of_steps |-> sp[1], search_tree_size |-> sp[2], exc |-> NoExc] :
         f \in BOOLEAN, e \in {None} \cup TreeNodes,
         par \in [TreeNodes -> {None} \cup TreeNodes],
         gg \in [TreeNodes -> SearchG(len)], sp \in StatPairs }

SearchOther(kind, e) ==
    [kind |-> kind, found |-> FALSE, end_node |-> None, parent |-> <<>>, g |-> <<>>,
     number_of_steps |-> 0, search_tree_size |-> 0, exc |-> e]

\* An invalid-move error of compute_cost that the algorithm lets escape.
SearchInvalidMove ==
    { SearchOther("raise", compute_cost(a1, b1, a2, b2).exc) :
        <<a1, b1, a2, b2>> \in
            { q \in Coord \X Coord \X Coord \X Coord :
                compute_cost(q[1], q[2], q[3], q[4]).exc # NoExc } }

SearchResults(len) ==
    SearchReturns(len) \cup SearchInvalidMove \cup
    { SearchOther("raise", Raised("RuntimeError", "search_function")),
      SearchOther("raise", Raised("SystemExit", "search_function")),
      SearchOther("short", NoExc),
      SearchOther("never", NoExc) }

\* What the run remembers of the last call's result.
Summary(r) ==
    [kind |-> r.kind, found |-> r.found,
     end_none |-> (r.end_node = None),
     end_g |-> IF r.kind = "return" /\ r.end_node # None THEN r.g[r.end_node] ELSE NaN,
     exc |-> r.exc]

NoResult ==
    [kind |-> "", found |-> FALSE, end_none |-> TRUE, end_g |-> NaN, exc |-> NoExc]

\* ------------------------------------------------------- exception handling
\* Classes derived from Exception; SystemExit and KeyboardInterrupt are not.
Exception == {"ValueError", "AttributeError", "TypeError", "RuntimeError"}

\* A handler that catches nothing.
except_nothing(e) == FALSE

\* A handler that lets ValueError through.
except_not_ValueError(e) == e.cls \in Exception \ {"ValueError"}

\* `except Exception as e:`
except_Exception(e) == e.cls \in Exception

\* --------------------------------------------------------------- try bodies
Outcome(apps, e, hang, msg, corr) ==
    [appends |-> apps, exc |-> e, hang |-> hang, out |-> [msg |-> msg, correct |-> corr]]

Fails(e) == Outcome(<<>>, e, FALSE, "", Nothing)
Hangs == Outcome(<<>>, NoExc, TRUE, "", Nothing)

\* The found branch appends the length before it compares the lengths.
massive_test_try_early_append(r, len) ==
    IF r.kind = "never" THEN Hangs
    ELSE IF r.kind = "raise" THEN Fails(r.exc)
    ELSE IF r.kind = "short" THEN Fails(Raised("ValueError", "unpack"))
    ELSE IF r.found
    THEN LET mp == make_path(r.parent, r.g, r.end_node)
         IN  IF mp.hang THEN Hangs
             ELSE IF mp.exc # NoExc THEN Fails(mp.exc)
             ELSE IF int(mp.length).exc # NoExc
                  THEN Outcome(<< <<"len", mp.length>> >>, int(mp.length).exc,
                               FALSE, "", Nothing)
             ELSE IF int(len).exc # NoExc
                  THEN Outcome(<< <<"len", mp.length>> >>, int(len).exc,
                               FALSE, "", Nothing)
             ELSE LET correct == int(mp.length).val = int(len).val
                  IN  Outcome(<< <<"len", mp.length>>, <<"corr", correct>>,
                                 <<"st_size", r.search_tree_size>>,
                                 <<"steps", r.number_of_steps>> >>,
                              NoExc, FALSE, "Path found!", Some(correct))
    ELSE Outcome(<< <<"len", Half(0)>>, <<"corr", FALSE>>,
                    <<"st_size", r.search_tree_size>>,
                    <<"steps", r.number_of_steps>> >>,
                 NoExc, FALSE, "Path not found!", Nothing)

\* The body of massive_test's try block on search result r, with the
\* reference length len: the appends it makes, in order, and how it ends.
massive_test_try(r, len) ==
    IF r.kind = "never" THEN Hangs
    ELSE IF r.kind = "raise" THEN Fails(r.exc)
    ELSE IF r.kind = "short" THEN Fails(Raised("ValueError", "unpack"))
    ELSE IF r.found
    THEN LET mp == make_path(r.parent, r.g, r.end_node)
         IN  IF mp.hang THEN Hangs
             ELSE IF mp.exc # NoExc THEN Fails(mp.exc)
             ELSE IF int(mp.length).exc # NoExc THEN Fails(int(mp.length).exc)
             ELSE IF int(len).exc # NoExc THEN Fails(int(len).exc)
             ELSE LET correct == int(mp.length).val = int(len).val
                  IN  Outcome(<< <<"len", mp.length>>, <<"corr", correct>>,
                                 <<"st_size", r.search_tree_size>>,
                                 <<"steps", r.number_of_steps>> >>,
                              NoExc, FALSE, "Path found!", Some(correct))
    ELSE Outcome(<< <<"len", Half(0)>>, <<"corr", FALSE>>,
                    <<"st_size", r.search_tree_size>>,
                    <<"steps", r.number_of_steps>> >>,
                 NoExc, FALSE, "Path not found!", Nothing)

\* The body of simple_test's try block.  draw() is the external renderer and
\* is taken to return; the printed report is kept as out.
simple_test_try(r, len) ==
    IF r.kind = "never" THEN Hangs
    ELSE IF r.kind = "raise" THEN Fails(r.exc)
    ELSE IF r.kind = "short" THEN Fails(Raised("ValueError", "unpack"))
    ELSE IF r.found
    THEN LET mp == make_path(r.parent, r.g, r.end_node)
         IN  IF mp.hang THEN Hangs
             ELSE IF mp.exc # NoExc THEN Fails(mp.exc)
             ELSE IF int(mp.length).exc # NoExc THEN Fails(int(mp.length).exc)
             ELSE IF int(len).exc # NoExc THEN Fails(int(len).exc)
             ELSE Outcome(<<>>, NoExc, FALSE, "Path found!",
                          Some(int(mp.length).val = int(len).val))
    ELSE Outcome(<<>>, NoExc, FALSE, "Path not found!", Nothing)

\* The body of simple_test_not_found's try block.
simple_test_not_found_try(r) ==
    IF r.kind = "never" THEN Hangs
    ELSE IF r.kind = "raise" THEN Fails(r.exc)
    ELSE IF r.kind = "short" THEN Fails(Raised("ValueError", "unpack"))
    ELSE IF ~r.found
    THEN Outcome(<<>>, NoExc, FALSE, "Path not found!", Some(TRUE))
    ELSE LET mp == make_path(r.parent, r.g, r.end_node)
         IN  IF mp.hang THEN Hangs
             ELSE IF mp.exc # NoExc THEN Fails(mp.exc)
             ELSE Outcome(<<>>, NoExc, FALSE, "Path found!", Some(FALSE))

\* ------------------------------------------------------------- task sources
\* simple_test's pool: the reference length of each of its 25 tasks.
lengths ==
    <<36, 30, 30, 21, 28, 24, 32, 27, 42, 23, 35, 37, 23,
      26, 40, 36, 42, 28, 44, 36, 38, 29, 33, 42, 44>>

PoolSize == 25            \* tasks of simple_test
NotFoundPoolSize == 2     \* tasks of simple_test_not_found

\* A task file as read_task_from_file meets it.
TaskFiles ==
    { [kind |-> "ok", length |-> l] : l \in {Half(1), Half(2), NaN} }
    \cup { [kind |-> k, length |-> NaN] : k \in {"missing", "malformed"} }

\* read_task_from_file: the reference length of a well-formed file; open()
\* fails on a missing file, int()/float()/next() on a malformed one.
read_task_from_file(f) ==
    IF f.kind = "ok" THEN [length |-> f.length, exc |-> NoExc]
    ELSE IF f.kind = "missing"
    THEN [length |-> NaN, exc |-> Raised("FileNotFoundError", "read_task_from_file")]
    ELSE [length |-> NaN, exc |-> Raised("ValueError", "read_task_from_file")]

\* --------------------------------------------------------------- statistics
EmptyStat == [corr |-> <<>>, len |-> <<>>, st_size |-> <<>>, steps |-> <<>>]

RECURSIVE Apply(_, _)
Apply(st, apps) ==
    IF Len(apps) = 0 THEN st
    ELSE Apply([st EXCEPT ![Head(apps)[1]] = Append(@, Head(apps)[2])], Tail(apps))

\* The same appends, each carrying the task index k instead of its value.
Tagged(apps, k) == [n \in 1..Len(apps) |-> <<apps[n][1], k>>]

\* ------------------------------------------------------------------ runners
Runners == {"massive_test", "simple_test", "simple_test_not_found"}
NumArgs == {Nothing} \cup { Some(n) : n \in (-1)..MaxTasks }
TaskArgs(size) == {Nothing, Some(-1), Some(0), Some(size - 1), Some(size)}
NoOut == [msg |-> "", correct |-> Nothing]

IdleRun ==
    /\ runner = "" /\ pc = "idle" /\ num_of_tasks = Nothing /\ task = Nothing
    /\ task_count = 0 /\ length = NaN /\ stat = EmptyStat /\ out = NoOut
    /\ exc = NoExc /\ origin = EmptyStat /\ calls = <<>> /\ reads = <<>>
    /\ result = NoResult

InitRun ==
    /\ runner \in Runners
    /\ pc = "start"
    /\ num_of_tasks \in (IF runner = "massive_test" THEN NumArgs ELSE {Nothing})
    /\ task \in (IF runner = "simple_test" THEN TaskArgs(PoolSize)
                 ELSE IF runner = "simple_test_not_found"
                      THEN TaskArgs(NotFoundPoolSize)
                 ELSE {Nothing})
    /\ task_count = 0 /\ length = NaN /\ stat = EmptyStat /\ out = NoOut
    /\ exc = NoExc /\ origin = EmptyStat /\ calls = <<>> /\ reads = <<>>
    /\ result = NoResult

\* The record of one invocation of search_function: the task, how the call
\* ended, and the exception (if any) that ended the try body.
Call(k, r, t) ==
    [task |-> k, kind |-> r.kind, cls |-> t.exc.cls, by |-> t.exc.by, hang |-> t.hang]

\* How a try statement ends: t is the outcome of its body, k the task.
\* `next` is the position after the statement when nothing propagates.
EndTry(t, k, next) ==
    /\ stat' = Apply(stat, t.appends)
    /\ origin' = Apply(origin, Tagged(t.appends, k))
    /\ IF t.hang
       THEN pc' = "hang" /\ exc' = NoExc /\ out' = out
       ELSE IF t.exc = NoExc
       THEN pc' = next /\ exc' = NoExc /\ out' = t.out
       ELSE IF except_Exception(t.exc)
       THEN pc' = next /\ exc' = NoExc
            /\ out' = [msg |-> "Execution error", correct |-> Nothing]
       ELSE pc' = "raised" /\ exc' = t.exc /\ out' = out

\* The rejection test without `num_of_tasks is None`: None <= 0 is a TypeError.
massive_test_start_no_none_test ==
    /\ runner = "massive_test" /\ pc = "start"
    /\ IF num_of_tasks = Nothing
       THEN /\ pc' = "raised" /\ out' = out
            /\ exc' = Raised("TypeError", "massive_test")
       ELSE IF num_of_tasks[1] <= 0
       THEN /\ out' = [msg |-> "Incorrect number of tasks. Testing halted!",
                       correct |-> Nothing]
            /\ pc' = "returned" /\ exc' = exc
       ELSE /\ pc' = "loop"
            /\ out' = out /\ exc' = exc
    /\ task_count' = 0
    /\ UNCHANGED <<runner, num_of_tasks, task, length, stat, origin, calls,
                   reads, result, costVars, pathVars>>

\* stat = {...}; if num_of_tasks is None or num_of_tasks <= 0: print; return stat
massive_test_start ==
    /\ runner = "massive_test" /\ pc = "start"
    /\ IF num_of_tasks = Nothing \/ num_of_tasks[1] <= 0
       THEN /\ out' = [msg |-> "Incorrect number of tasks. Testing halted!",
                       correct |-> Nothing]
            /\ pc' = "returned"
       ELSE /\ pc' = "loop"
            /\ out' = out
    /\ task_count' = 0
    /\ UNCHANGED <<runner, num_of_tasks, task, length, stat, exc, origin, calls,
                   reads, result, costVars, pathVars>>

\* The read is placed inside the try statement: a failed read is reported
\* and the loop goes on with the next task.
massive_test_read_guarded ==
    /\ runner = "massive_test" /\ pc = "loop"
    /\ task_count < num_of_tasks[1]
    /\ \E f \in TaskFiles :
         LET rd == read_task_from_file(f)
         IN  /\ reads' = Append(reads, [task |-> task_count, kind |-> f.kind])
             /\ IF rd.exc = NoExc
                THEN length' = rd.length /\ pc' = "try" /\ exc' = NoExc
                     /\ UNCHANGED <<task_count, out>>
                ELSE length' = length /\ pc' = "loop" /\ exc' = NoExc
                     /\ task_count' = task_count + 1
                     /\ out' = [msg |-> "Execution error", correct |-> Nothing]
    /\ UNCHANGED <<runner, num_of_tasks, task, stat, origin, calls,
                   result, costVars, pathVars>>

\* for task_count in range(task_num): ... = read_task_from_file(...); Map(cells)
\* At "loop" task_count holds the index the for statement takes next.
massive_test_read ==
    /\ runner = "massive_test" /\ pc = "loop"
    /\ task_count < num_of_tasks[1]
    /\ \E f \in TaskFiles :
         LET rd == read_task_from_file(f)
         IN  /\ reads' = Append(reads, [task |-> task_count, kind |-> f.kind])
             /\ IF rd.exc = NoExc
                THEN length' = rd.length /\ pc' = "try" /\ exc' = NoExc
                ELSE length' = length /\ pc' = "raised" /\ exc' = rd.exc
    /\ UNCHANGED <<runner, num_of_tasks, task, task_count, stat, out, origin, calls,
                   result, costVars, pathVars>>

\* try: ... = search_function(...); if found: ... else: ...; except Exception
massive_test_iteration ==
    /\ runner = "massive_test" /\ pc = "try"
    /\ \E r \in SearchResults(length) :
         LET t == massive_test_try(r, length)
         IN  /\ calls' = Append(calls, Call(task_count, r, t))
             /\ result' = Summary(r)
             /\ EndTry(t, task_count, "loop")
    /\ task_count' = IF pc' = "loop" THEN task_count + 1 ELSE task_count
    /\ UNCHANGED <<runner, num_of_tasks, task, length, reads, costVars, pathVars>>

\* return stat, once range(task_num) is exhausted
massive_test_return ==
    /\ runner = "massive_test" /\ pc = "loop"
    /\ task_count >= num_of_tasks[1]
    /\ pc' = "returned"
    /\ UNCHANGED <<runner, num_of_tasks, task, task_count, length, stat, out, exc,
                   origin, calls, reads, result, costVars, pathVars>>

\* if (task is None) or not (0 <= task < 25): task = random.randint(0, 24)
SelectTask(size) ==
    IF task = Nothing \/ ~(0 <= task[1] /\ task[1] < size)
    THEN \E t \in 0..(size - 1) : task' = Some(t)
    ELSE task' = task

\* simple_test up to its try statement: the task and its reference length
simple_test_start ==
    /\ runner = "simple_test" /\ pc = "start"
    /\ SelectTask(PoolSize)
    /\ length' = Whole(lengths[task'[1] + 1])
    /\ pc' = "try"
    /\ UNCHANGED <<runner, num_of_tasks, task_count, stat, out, exc, origin, calls,
                   reads, result, costVars, pathVars>>

simple_test_run ==
    /\ runner = "simple_test" /\ pc = "try"
    /\ \E r \in SearchResults(length) :
         LET t == simple_test_try(r, length)
         IN  /\ calls' = Append(calls, Call(task[1], r, t))
             /\ result' = Summary(r)
             /\ EndTry(t, task[1], "returned")
    /\ UNCHANGED <<runner, num_of_tasks, task, task_count, length, reads,
                   costVars, pathVars>>

\* simple_test_not_found up to its try statement
simple_test_not_found_start ==
    /\ runner = "simple_test_not_found" /\ pc = "start"
    /\ SelectTask(NotFoundPoolSize)
    /\ pc' = "try"
    /\ UNCHANGED <<runner, num_of_tasks, task_count, length, stat, out, exc, origin,
                   calls, reads, result, costVars, pathVars>>

simple_test_not_found_run ==
    /\ runner = "simple_test_not_found" /\ pc = "try"
    /\ \E r \in SearchResults(length) :
         LET t == simple_test_not_found_try(r)
         IN  /\ calls' = Append(calls, Call(task[1], r, t))
             /\ result' = Summary(r)
             /\ EndTry(t, task[1], "returned")
    /\ UNCHANGED <<runner, num_of_tasks, task, task_count, length, reads,
                   costVars, pathVars>>

\* ----------------------------------------------------------- specifications
InitCost == InitCostCall /\ IdlePath /\ IdleRun
NextCost == CallComputeCost
SpecCost == InitCost /\ [][NextCost]_vars

InitPath == IdleCost /\ InitPathCall /\ IdleRun
NextPath == make_path_enter \/ make_path_loop \/ make_path_return
SpecPath == InitPath /\ [][NextPath]_vars
\* make_path runs on one thread that is never descheduled for good.
LiveSpecPath == SpecPath /\ WF_vars(NextPath)

Init == IdleCost /\ IdlePath /\ InitRun
Next ==
    \/ massive_test_start
    \/ massive_test_read
    \/ massive_test_iteration
    \/ massive_test_return
    \/ simple_test_start
    \/ simple_test_run
    \/ simple_test_not_found_start
    \/ simple_test_not_found_run
Spec == Init /\ [][Next]_vars

\* ------------------------------------------------------------------ claims
Keys == {"corr", "len", "st_size", "steps"}
Last(s) == s[Len(s)]
IsPrefix(a, b) == Len(a) <= Len(b) /\ \A n \in 1..Len(a) : a[n] = b[n]

IsMassive == runner = "massive_test"
Positive == IsMassive /\ num_of_tasks # Nothing /\ num_of_tasks[1] > 0
Rejected == IsMassive /\ (IF num_of_tasks = Nothing THEN TRUE ELSE num_of_tasks[1] <= 0)

\* The try statement of call n has ended and the runner went on.
Survived(n) == n < Len(calls) \/ pc \in {"loop", "returned"}

\* Task k has an entry in the statistics, at the same position of corr and len.
EntryOf(k) ==
    { n \in 1..Len(stat.corr) :
        /\ n <= Len(stat.len) /\ n <= Len(origin.len)
        /\ origin.corr[n] = k /\ origin.len[n] = k }

\* The integer part of a number in half units, rounding towards zero, said
\* without int(): the z of the same sign with |z| <= |x| < |z| + 1.
IntPart(x) ==
    CHOOSE z \in (-100)..100 :
        /\ 2 * abs(z) <= abs(x[1]) /\ abs(x[1]) < 2 * abs(z) + 2
        /\ (z = 0 \/ (z > 0) = (x[1] > 0))

\* C1: massive_test on n > 0 well-formed task files returns four sequences of
\* exactly n entries each, also when search_function raised on some tasks; a
\* task on which it raised is recorded as corr = False and len = 0.0.
C1_EveryTaskRecorded ==
    /\ (Positive /\ pc = "returned")
          => \A key \in Keys : Len(stat[key]) = num_of_tasks[1]
    /\ IsMassive
          => \A n \in DOMAIN calls :
                (calls[n].kind = "raise" /\ Survived(n))
                   => \E m \in EntryOf(calls[n].task) :
                         stat.corr[m] = FALSE /\ stat.len[m] = Half(0)

\* C2 as stated: no exception raised by search_function aborts the batch, and
\* a returning massive_test has invoked search_function once for every task
\* index 0..n-1 in ascending order.
C2_NoExceptionAborts ==
    IsMassive =>
      /\ \A n \in DOMAIN calls :
            calls[n].kind = "raise"
               => ~(n = Len(calls) /\ pc = "raised"
                    /\ exc.by \in {"search_function", "compute_cost"})
      /\ (Positive /\ pc = "returned")
            => /\ Len(calls) = num_of_tasks[1]
               /\ \A n \in DOMAIN calls : calls[n].task = n - 1

\* C2 amended: an exception derived from Exception that search_function raises
\* on task k never aborts the batch: the loop goes on with task k + 1;
\* search_function is invoked once per task index, ascending from 0, and a
\* returning massive_test (n > 0) has invoked it for every index 0..n-1.  Only
\* a failed task-file read or an exception outside Exception (SystemExit,
\* KeyboardInterrupt) leaves massive_test by raising.
C2_ExceptionNeverAborts ==
    IsMassive =>
      /\ \A n \in DOMAIN calls :
            (calls[n].kind = "raise" /\ calls[n].cls \in Exception)
               => /\ ~(n = Len(calls) /\ pc = "raised"
                       /\ exc.by \in {"search_function", "compute_cost"})
                  /\ (n = Len(calls) /\ pc = "loop" => task_count = calls[n].task + 1)
      /\ \A n \in DOMAIN calls : calls[n].task = n - 1
      /\ (Positive /\ pc = "returned") => Len(calls) = num_of_tasks[1]
      /\ pc = "raised"
            => (exc.by = "read_task_from_file" \/ exc.cls \notin Exception)

C2_Witness ==
    /\ IsMassive /\ pc = "returned" /\ num_of_tasks = Some(2)
    /\ Len(calls) = 2
    /\ calls[1].kind = "raise" /\ calls[1].cls = "RuntimeError"

\* C3: massive_test with num_of_tasks None, zero or negative returns the empty
\* statistics mapping without raising, without reading a task file and
\* without invoking search_function.
C3_InvalidCountRejected ==
    (Rejected /\ pc # "start")
       => /\ pc = "returned"
          /\ exc = NoExc
          /\ \A key \in Keys : stat[key] = <<>>
          /\ reads = <<>>
          /\ calls = <<>>

C3_Witness ==
    /\ IsMassive /\ pc = "returned" /\ num_of_tasks = Nothing
    /\ out.msg = "Incorrect number of tasks. Testing halted!"

\* C4: compute_cost returns 1 exactly for the four cardinal offsets, whatever
\* the cells (negative or out-of-grid coordinates included); for every other
\* pair it returns nothing and raises the invalid-move ValueError.
Cardinal == <<i2 - i1, j2 - j1>> \in {<<1, 0>>, <<-1, 0>>, <<0, 1>>, <<0, -1>>}

C4_CostIffCardinal ==
    cc_pc = "done"
       => /\ (cost.ret = Some(1)) <=> Cardinal
          /\ Cardinal => cost.exc = NoExc
          /\ ~Cardinal => (cost.ret = Nothing /\ cost.exc.cls = "ValueError")

C4_Witness ==
    /\ cc_pc = "done" /\ i1 = -1 /\ j1 = 1 /\ i2 = -1 /\ j2 = 0
    /\ cost.ret = Some(1)

\* The proper ancestors of node n in the heap, and whether n's chain is
\* free of cycles (no node on it is its own ancestor).
RECURSIVE Up(_, _)
Up(S, k) ==
    IF k = 0 THEN S
    ELSE Up(S \cup ({ parent[m] : m \in S } \ {None}), k - 1)
Ancestors(n) == Up({parent[n]} \ {None}, MaxNodes)
Acyclic(n) == \A m \in {n} \cup Ancestors(n) : m \notin Ancestors(m)

\* C5: on a node n with an acyclic parent chain of depth k, make_path returns
\* k + 1 nodes, root first: the first has no parent, each later one's parent
\* is the one before it, the last is n; the returned cost is n.g.
C5_PathRootFirst ==
    (mp_pc = "done" /\ Acyclic(goal))
       => LET p == mp_ret.path
              k == Cardinality(Ancestors(goal))
          IN  /\ Len(p) = k + 1
              /\ parent[p[1]] = None
              /\ \A n \in 2..Len(p) : parent[p[n]] = p[n - 1]
              /\ p[Len(p)] = goal
              /\ mp_ret.length = g[goal]
              /\ (k = 0 => p = <<goal>>)

C5_Witness ==
    /\ mp_pc = "done" /\ Len(mp_ret.path) = 3
    /\ g[goal] # g[mp_ret.path[1]]

\* C6: in batch mode, a task whose search call returned and that was recorded
\* has flag = (found and integer part of goal.g = integer part of the
\* reference length); not found gives flag False and length 0.0; found gives
\* length goal.g.  simple_test prints the same flag.
C6_CorrectIffLengthsAgree ==
    /\ (IsMassive /\ calls # <<>> /\ pc \in {"loop", "returned", "raised"})
          => \A m \in EntryOf(Last(calls).task) :
                /\ Last(calls).kind = "return"
                /\ result.found
                      => /\ stat.len[m] = result.end_g
                         /\ stat.corr[m] = (IntPart(result.end_g) = IntPart(length))
                /\ ~result.found
                      => (stat.len[m] = Half(0) /\ stat.corr[m] = FALSE)
    /\ (runner = "simple_test" /\ pc = "returned" /\ out.msg = "Path found!")
          => out.correct = Some(IntPart(result.end_g) = IntPart(length))

C6_Witness ==
    /\ IsMassive /\ pc = "loop" /\ calls # <<>>
    /\ result.found /\ result.end_g = Half(-1) /\ length = Half(1)
    /\ stat.corr # <<>> /\ Last(stat.corr) = TRUE

\* C7: a missing or malformed file for task k raises out of massive_test:
\* nothing is appended for it, massive_test does not return, and
\* search_function has run for tasks 0..k-1 only.
C7_BadFilePropagates ==
    IsMassive =>
      \A n \in DOMAIN reads :
         reads[n].kind # "ok"
            => /\ n = Len(reads)
               /\ pc = "raised" /\ exc.by = "read_task_from_file"
               /\ Len(calls) = reads[n].task
               /\ \A c \in DOMAIN calls : calls[c].task < reads[n].task
               /\ \A key \in Keys : \A m \in DOMAIN origin[key] :
                     origin[key][m] < reads[n].task
               /\ ~ENABLED Next

C7_Witness ==
    /\ IsMassive /\ pc = "raised" /\ reads # <<>>
    /\ Last(reads).kind = "malformed" /\ Last(reads).task = 1
    /\ Len(calls) = 1

\* C8 as stated: an invalid-move error of compute_cost that escapes
\* search_function inside a runner is not caught by the runner: it leaves the
\* runner as the propagating exception.
C8_InvalidMoveNotSwallowed ==
    \A n \in DOMAIN calls :
       calls[n].by = "compute_cost"
          => (n = Len(calls) /\ pc = "raised" /\ exc.by = "compute_cost")

\* C8 amended: compute_cost raises the invalid-move ValueError to its caller;
\* when it escapes search_function inside simple_test, simple_test_not_found
\* or massive_test, the runner's handler catches it: the runner reports
\* "Execution error", records nothing for the task and goes on (massive_test
\* to the next task, the single-task runners to their return).
C8_InvalidMoveCaught ==
    \A n \in DOMAIN calls :
       calls[n].by = "compute_cost"
          => /\ calls[n].cls = "ValueError"
             /\ pc # "raised" \/ exc.by # "compute_cost"
             /\ EntryOf(calls[n].task) = {}
             /\ (n = Len(calls) /\ (IsMassive => Len(reads) = n))
                   => /\ pc \in {"loop", "returned"}
                      /\ out.msg = "Execution error"
                      /\ IsMassive /\ pc = "loop" => task_count = calls[n].task + 1

C8_Witness ==
    /\ runner = "simple_test" /\ pc = "returned" /\ calls # <<>>
    /\ Last(calls).by = "compute_cost"
    /\ out.msg = "Execution error"

\* C9: make_path reaches its return on every node whose parent chain is
\* acyclic, and never reaches it (and has no other way out) on a node whose
\* chain runs into a cycle.
C9_TerminatesIffAcyclic ==
    /\ Acyclic(goal) ~> (mp_pc = "done")
    /\ [](~Acyclic(goal) => mp_pc # "done")

C9_Witness ==
    /\ ~Acyclic(goal) /\ mp_pc = "while" /\ Len(path) > MaxNodes

\* C10: during massive_test the four sequences have equal length at every
\* task boundary, never more entries than tasks started, the entries at one
\* position come from one task, and steps only append.
C10_LockStep ==
    /\ [](IsMassive =>
            /\ \A key \in Keys : Len(stat[key]) = Len(stat.corr)
            /\ Len(stat.corr) <= Len(reads)
            /\ \A key \in Keys : origin[key] = origin.corr
            /\ \A n \in 2..Len(origin.corr) : origin.corr[n - 1] < origin.corr[n])
    /\ [][\A key \in Keys : IsPrefix(stat[key], stat'[key])]_vars

C10_Witness ==
    /\ IsMassive /\ pc = "returned" /\ Len(calls) = 2
    /\ calls[1].kind = "return" /\ calls[1].by = "int"
    /\ origin.corr = <<1>>

====
